---- MODULE Spec2Model ----
(***************************************************************************)
(* Result accumulation and derivation engine of 3photons                   *)
(* (src/src/resfin.rs): ResultsBuilder::new, ::integrate and ::finalize.   *)
(*                                                                         *)
(* Real (f64, src/src/numeric.rs:8) is modelled as an extended rational    *)
(* [n, d]: d > 0 is the finite value n/d in lowest terms, d = 0 with       *)
(* n = +1/-1 is +Infinity/-Infinity and d = 0 with n = 0 is NaN.  The      *)
(* IEEE-754 rules for the special values are kept; finite arithmetic is    *)
(* exact, zero is unsigned, and sqrt(n/d) is rounded down to a multiple of *)
(* 1/(s*t), where d = s*t^2 with s square-free; it is exact on perfect     *)
(* squares.                                                                *)
(***************************************************************************)
EXTENDS Integers, Sequences, FiniteSets, TLC

\* ------------------------------------------------------------------------
\* Bounds of the model
\* ------------------------------------------------------------------------
MaxIntegrate == 3      \* most integrate calls made on one builder
MaxNumEvents == 3      \* largest Configuration.num_events drawn
MaxBlankLines == 1     \* most blank lines put into a configuration file

\* ------------------------------------------------------------------------
\* Real numbers
\* ------------------------------------------------------------------------
RECURSIVE GCD(_, _)
GCD(a, b) == IF b = 0 THEN a ELSE GCD(b, a % b)

AbsInt(i) == IF i < 0 THEN -i ELSE i
Sign(i) == IF i > 0 THEN 1 ELSE IF i < 0 THEN -1 ELSE 0

NaN == [n |-> 0, d |-> 0]
Inf(s) == [n |-> s, d |-> 0]

\* n/d with d > 0, reduced to lowest terms
Rat(n, d) == LET g == GCD(AbsInt(n), d) IN [n |-> n \div g, d |-> d \div g]
R(i) == [n |-> i, d |-> 1]

IsNaN(x) == x.d = 0 /\ x.n = 0
IsInf(x) == x.d = 0 /\ x.n # 0
IsFinite(x) == x.d > 0
IsZero(x) == x.d > 0 /\ x.n = 0

\* f64 addition
RAdd(a, b) ==
    IF IsNaN(a) \/ IsNaN(b) THEN NaN
    ELSE IF IsInf(a) THEN (IF IsInf(b) /\ b.n # a.n THEN NaN ELSE a)
    ELSE IF IsInf(b) THEN b
    ELSE LET g == GCD(a.d, b.d)
         IN  Rat(a.n * (b.d \div g) + b.n * (a.d \div g), (a.d \div g) * b.d)

RNeg(a) == [n |-> -a.n, d |-> a.d]
RSub(a, b) == RAdd(a, RNeg(b))

\* f64 multiplication
RMul(a, b) ==
    IF IsNaN(a) \/ IsNaN(b) THEN NaN
    ELSE IF IsInf(a) \/ IsInf(b)
         THEN (IF a.n = 0 \/ b.n = 0 THEN NaN ELSE Inf(Sign(a.n) * Sign(b.n)))
    ELSE LET g1 == GCD(AbsInt(a.n), b.d)
             g2 == GCD(AbsInt(b.n), a.d)
         IN  [n |-> (a.n \div g1) * (b.n \div g2),
              d |-> (a.d \div g2) * (b.d \div g1)]

\* f64 division: x/0 is an infinity, 0/0 and inf/inf are NaN
RDiv(a, b) ==
    IF IsNaN(a) \/ IsNaN(b) THEN NaN
    ELSE IF IsInf(a)
         THEN (IF IsInf(b) THEN NaN
               ELSE Inf(a.n * (IF b.n < 0 THEN -1 ELSE 1)))
    ELSE IF IsInf(b) THEN R(0)
    ELSE IF b.n = 0 THEN (IF a.n = 0 THEN NaN ELSE Inf(Sign(a.n)))
    ELSE RMul(a, [n |-> Sign(b.n) * b.d, d |-> AbsInt(b.n)])

\* numeric.rs: abs
abs(x) == [n |-> AbsInt(x.n), d |-> x.d]

RECURSIVE IsqrtIter(_, _, _)
IsqrtIter(m, lo, hi) ==
    IF lo >= hi THEN lo
    ELSE LET mid == (lo + hi + 1) \div 2
         IN  IF mid * mid <= m THEN IsqrtIter(m, mid, hi)
                               ELSE IsqrtIter(m, lo, mid - 1)
\* floor of the square root of a natural number
Isqrt(m) == IsqrtIter(m, 0, IF m < 46340 THEN m ELSE 46340)

RECURSIVE SquareRootPart(_, _)
\* the largest t whose square divides d, searched from the factor f upwards
SquareRootPart(d, f) ==
    IF f * f > d THEN 1
    ELSE IF d % (f * f) = 0 THEN f * SquareRootPart(d \div (f * f), f)
    ELSE SquareRootPart(d, f + 1)

\* numeric.rs: sqrt; NaN for negative arguments, as f64::sqrt
sqrt(x) ==
    IF IsNaN(x) THEN NaN
    ELSE IF IsInf(x) THEN (IF x.n > 0 THEN x ELSE NaN)
    ELSE IF x.n < 0 THEN NaN
    ELSE LET t == SquareRootPart(x.d, 2)
             s == x.d \div (t * t)
         IN  Rat(Isqrt(x.n * s), s * t)

\* numeric.rs: sqr
sqr(x) == RMul(x, x)

\* numeric.rs: powi
RECURSIVE powi(_, _)
powi(x, n) ==
    IF n = 0 THEN R(1)
    ELSE IF n = 1 THEN x
    ELSE IF n >= 2 THEN RMul(powi(x, n % 2), powi(sqr(x), n \div 2))
    ELSE RDiv(R(1), powi(x, -n))

\* std::f64::consts::PI, to the resolution of the model
PI == Rat(22, 7)


\* ------------------------------------------------------------------------
\* Program constants
\* ------------------------------------------------------------------------
NUM_SPINS == 2
OUTGOING_COUNT == 3

Channels == 0..4
Spins == 0..(NUM_SPINS - 1)

\* rescont::ResultVector<Real>: one Real per result channel
Vec(t) == [k \in Channels |-> R(t[k + 1])]
\* ResultVector::zero()
VecZero == [k \in Channels |-> R(0)]
\* "=" written for "+=": the running value is replaced, not accumulated
VecReplace(u, v) == v
\* ResultVector += ResultVector
VecAdd(u, v) == [k \in Channels |-> RAdd(u[k], v[k])]
\* map without the squaring closure
VecMapId(u) == u
\* ResultVector::map(sqr)
VecMapSqr(u) == [k \in Channels |-> sqr(u[k])]
\* ResultVector::dot, summed in channel order
VecDot(u, v) ==
    RAdd(RAdd(RAdd(RAdd(RMul(u[0], v[0]), RMul(u[1], v[1])),
                   RMul(u[2], v[2])), RMul(u[3], v[3])), RMul(u[4], v[4]))

\* ------------------------------------------------------------------------
\* Inputs: configurations, event weights and per-event contributions
\* ------------------------------------------------------------------------
\* Configuration values the builder reads (the fields of struct Configuration
\* under the names resfin.rs uses for them)
Configs ==
    { [num_events |-> ne, e_tot |-> R(e), convers |-> R(6),
       m_z0 |-> R(1), g_z0 |-> R(2), sin2_w |-> Rat(1, 8),
       beta_plus |-> R(b[1]), beta_minus |-> R(b[2])] :
        ne \in 1..MaxNumEvents, e \in {1, 2}, b \in {<<1, 1>>, <<2, 1>>} }

\* raw event weight handed to ResultsBuilder::new by the event generator
EventWeights == { powi(RMul(R(2), PI), 5) }

\* results of ResultContribution::m2_sums(): channels 0-2 are sums of squared
\* moduli, channels 3-4 are signed interference terms
Contribs ==
    { Vec(<<0, 0, 0, 0, 0>>), Vec(<<1, 1, 1, 0, 0>>), Vec(<<1, 2, 2, 1, -1>>),
      Vec(<<2, 1, 3, -1, 1>>), Vec(<<0, 0, 0, -1, 1>>) }

\* ------------------------------------------------------------------------
\* ResultsBuilder::new
\* ------------------------------------------------------------------------
New(cfg, event_weight) ==
    LET fact_com == RMul(RDiv(R(1), R(6)), cfg.convers)
        gzr == RDiv(cfg.g_z0, cfg.m_z0)
        p_aa == R(2)
        p_ab == RSub(R(1), RMul(R(4), cfg.sin2_w))
        p_bb == RAdd(p_ab, RMul(R(8), sqr(cfg.sin2_w)))
        c_aa == RMul(fact_com, p_aa)
        c_ab == RDiv(RMul(fact_com, p_ab), sqr(cfg.m_z0))
        c_bb == RDiv(RMul(fact_com, p_bb), powi(cfg.m_z0, 4))
        dzeta == sqr(RDiv(cfg.e_tot, cfg.m_z0))
        ecart_pic == RDiv(RSub(dzeta, R(1)), gzr)
        propag == RDiv(R(1), RAdd(R(1), sqr(ecart_pic)))
        n_ev == R(cfg.num_events)
        norm == RDiv(powi(RMul(R(2), PI), 4 - 3 * OUTGOING_COUNT), n_ev)
        norm_weight == RMul(event_weight, norm)
        com_contrib == RDiv(norm_weight, R(4))
        aa_contrib == RMul(com_contrib, c_aa)
        bb_contrib == RDiv(RMul(RMul(com_contrib, c_bb), propag), sqr(gzr))
        ab_contrib == RDiv(RMul(RMul(RMul(RMul(com_contrib, c_ab), R(2)),
                                     cfg.beta_plus), propag), gzr)
        sigma_contribs ==
            [k \in Channels |->
                CASE k = 0 -> aa_contrib
                  [] k = 1 -> RMul(bb_contrib, sqr(cfg.beta_plus))
                  [] k = 2 -> RMul(bb_contrib, sqr(cfg.beta_minus))
                  [] k = 3 -> RMul(ab_contrib, ecart_pic)
                  [] k = 4 -> RNeg(ab_contrib)]
    IN  [selected_events |-> 0,
         spm2 |-> VecZero,
         vars |-> VecZero,
         sigma_contribs |-> sigma_contribs,
         sigma |-> R(0),
         variance |-> R(0),
         config |-> cfg,
         fact_com |-> fact_com,
         norm_weight |-> norm_weight,
         propag |-> propag,
         ecart_pic |-> ecart_pic]

\* ------------------------------------------------------------------------
\* ResultsBuilder::integrate
\* ------------------------------------------------------------------------
\* the counter left as it was
I32IncStale(i) == i
\* selected_events += 1 on an i32 (wrapping, as in a release build)
I32Inc(i) == IF i = 2147483647 THEN -2147483647 - 1 ELSE i + 1

\* the total variance fed with the square of the running sum
IntegrateStepSquaresRunningSum(b, result) ==
    LET spm2_dif == result
        weight == VecDot(spm2_dif, b.sigma_contribs)
    IN  [b EXCEPT !.selected_events = I32Inc(b.selected_events),
                  !.spm2 = VecAdd(b.spm2, spm2_dif),
                  !.vars = VecAdd(b.vars, VecMapSqr(spm2_dif)),
                  !.sigma = RAdd(b.sigma, weight),
                  !.variance = RAdd(b.variance, sqr(RAdd(b.sigma, weight)))]

\* the event weight reset on every event, as the original WTEV was
IntegrateStepResetsWeight(b, result) ==
    LET spm2_dif == result
        weight == VecDot(spm2_dif, b.sigma_contribs)
    IN  [b EXCEPT !.selected_events = I32Inc(b.selected_events),
                  !.spm2 = VecAdd(b.spm2, spm2_dif),
                  !.vars = VecAdd(b.vars, VecMapSqr(spm2_dif)),
                  !.sigma = RAdd(b.sigma, weight),
                  !.variance = RAdd(b.variance, sqr(weight)),
                  !.norm_weight = weight]

IntegrateStep(b, result) ==
    LET spm2_dif == result
        weight == VecDot(spm2_dif, b.sigma_contribs)
    IN  [b EXCEPT !.selected_events = I32Inc(b.selected_events),
                  !.spm2 = VecAdd(b.spm2, spm2_dif),
                  !.vars = VecAdd(b.vars, VecMapSqr(spm2_dif)),
                  !.sigma = RAdd(b.sigma, weight),
                  !.variance = RAdd(b.variance, sqr(weight))]


\* ------------------------------------------------------------------------
\* ResultsBuilder::finalize
\* ------------------------------------------------------------------------
\* the biased estimator: division by n instead of n - 1
TwoPassVarianceBiased(sum_sq, sum, n_ev) ==
    RDiv(RSub(sum_sq, RDiv(sqr(sum), n_ev)), n_ev)

\* two-pass variance (sum_sq - sum^2/n) / (n - 1)
TwoPassVariance(sum_sq, sum, n_ev) ==
    RDiv(RSub(sum_sq, RDiv(sqr(sum), n_ev)), RSub(n_ev, R(1)))

\* relative uncertainty sqrt(var/n) / |sum/n|
RelativeUncertainty(var, sum, n_ev) ==
    RDiv(sqrt(RDiv(var, n_ev)), abs(RDiv(sum, n_ev)))

\* the number of integrate calls taken as the sample count
SampleCountIntegrated(b) == R(b.selected_events)

\* the number of integrate calls preferred, once there is one
SampleCountSelected(b) ==
    IF b.selected_events > 0 THEN R(b.selected_events)
                             ELSE R(b.config.num_events)

\* sample count of the variance formulas: the configured event count
SampleCount(b) == R(b.config.num_events)

\* the multiplier applied linearly to every polarised channel
PolarisationLinear(cfg, s, k) ==
    LET pol_p == RMul(R(-2), cfg.sin2_w)
        pol_m == RAdd(R(1), pol_p)
        pol == IF s = 0 THEN pol_m ELSE pol_p
    IN  IF k \in 1..4 THEN pol ELSE R(1)

\* polarisation multiplier of channel k for spin s
Polarisation(cfg, s, k) ==
    LET pol_p == RMul(R(-2), cfg.sin2_w)
        pol_m == RAdd(R(1), pol_p)
        pol == IF s = 0 THEN pol_m ELSE pol_p
    IN  IF k \in 1..2 THEN sqr(pol)
        ELSE IF k \in 3..4 THEN pol
        ELSE R(1)

\* channel 2 scaled by propag/gz0_mz0 instead of propag/gz0_mz0^2
ChannelScalingUnsquared(b, k) ==
    LET gz0_mz0 == RMul(b.config.g_z0, b.config.m_z0)
    IN  CASE k = 0 -> R(1)
          [] k = 1 -> RDiv(b.propag, sqr(gz0_mz0))
          [] k = 2 -> RDiv(b.propag, gz0_mz0)
          [] k = 3 -> RDiv(RMul(b.propag, b.ecart_pic), gz0_mz0)
          [] k = 4 -> RDiv(b.propag, gz0_mz0)

\* propagator and mass scaling of channel k
ChannelScaling(b, k) ==
    LET gz0_mz0 == RMul(b.config.g_z0, b.config.m_z0)
    IN  CASE k = 0 -> R(1)
          [] k = 1 -> RDiv(b.propag, sqr(gz0_mz0))
          [] k = 2 -> RDiv(b.propag, sqr(gz0_mz0))
          [] k = 3 -> RDiv(RMul(b.propag, b.ecart_pic), gz0_mz0)
          [] k = 4 -> RDiv(b.propag, gz0_mz0)

FinalizeResults(b) ==
    LET cfg == b.config
        n_ev == SampleCount(b)
        var0 == [k \in Channels |->
                    RelativeUncertainty(
                        TwoPassVariance(b.vars[k], b.spm2[k], n_ev),
                        b.spm2[k], n_ev)]
        var == [s \in Spins |-> var0]
        flux == RDiv(R(1), RMul(R(2), sqr(cfg.e_tot)))
        common == RMul(RMul(b.fact_com, flux), b.norm_weight)
        spm2 == [s \in Spins |-> [k \in Channels |->
                    RMul(RMul(RMul(b.spm2[k], Polarisation(cfg, s, k)),
                              common), ChannelScaling(b, k))]]
        ss_denom == RAdd(spm2[0][0], spm2[1][0])
        inc_ss_common ==
            RDiv(sqrt(RAdd(sqr(RMul(spm2[0][0], var[0][0])),
                           sqr(RMul(spm2[1][0], var[1][0])))),
                 RMul(R(2), abs(ss_denom)))
        inc_ss(k) ==
            RAdd(RDiv(sqrt(RAdd(sqr(RMul(spm2[0][k], var[0][k])),
                                sqr(RMul(spm2[1][k], var[1][k])))),
                      abs(RAdd(spm2[0][k], spm2[1][k]))),
                 inc_ss_common)
        variance == TwoPassVariance(b.variance, b.sigma, n_ev)
    IN  [selected_events |-> b.selected_events,
         spm2 |-> spm2,
         vars |-> var,
         sigma |-> RMul(b.sigma, flux),
         variance |-> variance,
         prec |-> RelativeUncertainty(variance, b.sigma, n_ev),
         beta_min |-> sqrt(RDiv(RAdd(spm2[0][0], spm2[1][0]),
                                RAdd(spm2[0][1], spm2[1][1]))),
         ss_p |-> RDiv(RAdd(spm2[0][1], spm2[1][1]),
                       RMul(R(2), sqrt(ss_denom))),
         inc_ss_p |-> inc_ss(1),
         ss_m |-> RDiv(RAdd(spm2[0][2], spm2[1][2]),
                       RMul(R(2), sqrt(ss_denom))),
         inc_ss_m |-> inc_ss(2),
         config |-> cfg]

\* a finalize that rejects accumulators of fewer than 2 events
FinalizeFailsOnFewEvents(b) == b.selected_events < 2

\* finalize returns FinalResults, not a Result: it has no error path
FinalizeFails(b) == FALSE

\* a finalize that only borrows the builder
BuilderAfterFinalizeBorrowed(b) == << b >>

\* finalize takes self by value: the builder is moved out of the caller
BuilderAfterFinalize(b) == << >>

\* ------------------------------------------------------------------------
\* Configuration::load (src/src/config.rs)
\* ------------------------------------------------------------------------
\* the tags passed to next_item, in reading order
FieldNames ==
    <<"num_events", "e_total", "beam_photons_cut", "photon_photon_cut",
      "e_min", "beam_photon_plane_cut", "alpha", "alpha_z",
      "gev2_to_picobarn", "m_z0", "g_z0", "sin2_weinberg",
      "branching_ep_em", "beta_plus", "beta_moins", "num_bins", "impr",
      "plot">>

\* the type each item is parsed as
FieldTypes ==
    <<"usize", "Float", "Float", "Float", "Float", "Float", "Float", "Float",
      "Float", "Float", "Float", "Float", "Float", "Float", "Float", "i32",
      "bool", "bool">>

NumFields == Len(FieldNames)

\* A parse result is << v >> for Ok(v) and << >> for Err.
\* str::parse::<usize>
ParseUsize(data) ==
    CASE data = "0" -> << 0 >>
      [] data = "1" -> << 1 >>
      [] data = "2" -> << 2 >>
      [] OTHER -> << >>

\* str::parse::<i32>
ParseI32(data) ==
    CASE data = "0" -> << 0 >>
      [] data = "1" -> << 1 >>
      [] data = "2" -> << 2 >>
      [] data = "-1" -> << -1 >>
      [] OTHER -> << >>

\* str::parse::<Float>
ParseFloat(data) ==
    CASE data = "0" -> << R(0) >>
      [] data = "1" -> << R(1) >>
      [] data = "2" -> << R(2) >>
      [] data = "-1" -> << R(-1) >>
      [] data = "2.5" -> << Rat(5, 2) >>
      [] OTHER -> << >>

\* str::to_lowercase on the tokens of the model
ToLowercase(data) ==
    CASE data = ".TRUE." -> ".true."
      [] data = ".FALSE." -> ".false."
      [] data = "FALSE" -> "false"
      [] data = "TRUE" -> "true"
      [] OTHER -> data

\* ConfigItem::parse_bool: Fortran booleans in any case, else the standard
\* parser applied to the data as written
ParseBool(data) ==
    CASE ToLowercase(data) = ".true." -> << TRUE >>
      [] ToLowercase(data) = ".false." -> << FALSE >>
      [] data = "true" -> << TRUE >>
      [] data = "false" -> << FALSE >>
      [] OTHER -> << >>

\* ConfigItem::parse / parse_bool, by the type of the field
Parse(type, data) ==
    CASE type = "usize" -> ParseUsize(data)
      [] type = "i32" -> ParseI32(data)
      [] type = "Float" -> ParseFloat(data)
      [] type = "bool" -> ParseBool(data)

\* config_iter: the first whitespace-separated chunk of every non-blank
\* line; a line is the sequence of its chunks
Items(file) ==
    LET nonblank == SelectSeq(file, LAMBDA line : line # << >>)
    IN  [i \in 1..Len(nonblank) |-> Head(nonblank[i])]

NoError == [kind |-> "none", name |-> ""]
\* format_err!("Missing configuration of {}", name)
Missing(name) == [kind |-> "Missing configuration of", name |-> name]
\* context "Could not parse configuration of {}"
CouldNotParse(name) ==
    [kind |-> "Could not parse configuration of", name |-> name]

\* num_events >= 0 accepted
EnsureNumEventsNonNegative(num_events) == num_events >= 0

\* ensure!(config.num_events > 0, ...)
EnsureNumEvents(num_events) == num_events > 0

\* one field initialiser of the Configuration literal: next_item(name)? and
\* then parse()? of the item
LoadReadItemStep(l) ==
    LET name == FieldNames[l.field]
    IN  IF l.rest = << >>
        THEN [l EXCEPT !.status = "err", !.error = Missing(name)]
        ELSE LET parsed == Parse(FieldTypes[l.field], Head(l.rest))
             IN  IF Len(parsed) = 0
                 THEN [l EXCEPT !.status = "err",
                                !.error = CouldNotParse(name)]
                 ELSE [l EXCEPT !.values = Append(l.values, parsed[1]),
                                !.rest = Tail(l.rest),
                                !.field = l.field + 1,
                                !.status = IF l.field = NumFields
                                           THEN "loaded" ELSE "reading"]

\* the ensure! chain on the decoded configuration
LoadCheckStep(l) ==
    IF ~EnsureNumEvents(l.values[1])
    THEN [l EXCEPT !.status = "err",
                   !.error = [kind |-> "Please simulate at least one event",
                              name |-> "num_events"]]
    ELSE IF l.values[18]
    THEN [l EXCEPT !.status = "err",
                   !.error = [kind |-> "Plotting is not supported",
                              name |-> "plot"]]
    ELSE IF l.values[17]
    THEN [l EXCEPT !.status = "err",
                   !.error = [kind |-> "Individual result printing is not supported",
                              name |-> "impr"]]
    ELSE [l EXCEPT !.status = "ok"]

\* the loader before the first item is read
LoaderStart(file) ==
    [status |-> "reading", file |-> file, rest |-> Items(file), field |-> 1,
     values |-> << >>, error |-> NoError]

\* no load in progress
LoaderIdle ==
    [status |-> "idle", file |-> << >>, rest |-> << >>, field |-> 1,
     values |-> << >>, error |-> NoError]

\* a token its field cannot parse
BadToken(i) ==
    CASE FieldTypes[i] = "usize" -> "-1"
      [] FieldTypes[i] = "i32" -> "2.5"
      [] FieldTypes[i] = "Float" -> "abc"
      [] FieldTypes[i] = "bool" -> "FALSE"

\* a complete, well-formed file: one item and a comment per line
BaseFile(ne, impr, plot) ==
    [i \in 1..NumFields |->
        CASE i = 1 -> << ne, "ITOT" >>
          [] i = 16 -> << "2", "NBIN" >>
          [] i = 17 -> << impr, "IMPR" >>
          [] i = 18 -> << plot, "PLOT" >>
          [] i = 12 -> << "0", "SIN2W" >>
          [] i = 15 -> << "-1", "BETAMOINS" >>
          [] OTHER -> IF i % 2 = 0 THEN << "2.5" >> ELSE << "1", "comment" >>]

RECURSIVE BlankLines(_)
BlankLines(n) == IF n = 0 THEN << >> ELSE << << >> >> \o BlankLines(n - 1)

\* configuration files: a well-formed file, cut after its first len lines
\* (or followed by one more line), with line bad made unparsable and with
\* blank lines after the first line and at the end
LoadFiles ==
    { LET base == BaseFile(ne, impr, plot)
          marred == [i \in 1..NumFields |->
                        IF i = bad THEN << BadToken(i) >> ELSE base[i]]
          cut == IF len > NumFields THEN marred \o << << "extra" >> >>
                                    ELSE SubSeq(marred, 1, len)
      IN  IF len = 0 THEN BlankLines(blanks)
          ELSE << cut[1] >> \o BlankLines(blanks) \o Tail(cut)
                   \o BlankLines(blanks) :
        ne \in {"0", "1", "2"}, impr \in {".false.", ".TRUE.", "false"},
        plot \in {".FALSE.", "true"}, len \in 0..(NumFields + 1),
        bad \in {0, 1, 2, 15, 16, 17, 18}, blanks \in 0..MaxBlankLines }

\* ------------------------------------------------------------------------
\* State machine: new -> integrate* -> finalize
\* ------------------------------------------------------------------------
VARIABLES
    builder,         \* << b >> while the ResultsBuilder is owned, << >> once moved
    results,         \* << r >> once finalize has returned FinalResults r
    failed,          \* TRUE iff finalize reported a failure
    new_builder,     \* the value ResultsBuilder::new returned
    hist,            \* contributions integrated so far, in call order
    finalize_calls,  \* number of finalize calls made
    late_integrates, \* number of integrate calls made after a finalize call
    loader           \* progress and outcome of Configuration::load

vars == <<builder, results, failed, new_builder, hist, finalize_calls,
          late_integrates, loader>>

Init ==
    /\ \E cfg \in Configs, event_weight \in EventWeights :
          /\ new_builder = New(cfg, event_weight)
          /\ builder = << New(cfg, event_weight) >>
    /\ results = << >>
    /\ failed = FALSE
    /\ hist = << >>
    /\ finalize_calls = 0
    /\ late_integrates = 0
    /\ loader = LoaderIdle

Integrate(result) ==
    /\ builder # << >>
    /\ Len(hist) < MaxIntegrate
    /\ builder' = << IntegrateStep(builder[1], result) >>
    /\ hist' = Append(hist, result)
    /\ late_integrates' = late_integrates + (IF finalize_calls > 0 THEN 1 ELSE 0)
    /\ UNCHANGED <<results, failed, new_builder, finalize_calls, loader>>

Finalize ==
    /\ builder # << >>
    /\ IF FinalizeFails(builder[1])
       THEN failed' = TRUE /\ UNCHANGED results
       ELSE results' = << FinalizeResults(builder[1]) >> /\ UNCHANGED failed
    /\ builder' = BuilderAfterFinalize(builder[1])
    /\ finalize_calls' = finalize_calls + 1
    /\ UNCHANGED <<new_builder, hist, late_integrates, loader>>

Next ==
    \/ \E result \in Contribs : Integrate(result)
    \/ Finalize

Spec == Init /\ [][Next]_vars

\* ------------------------------------------------------------------------
\* State machine of Configuration::load, one step per configuration item
\* ------------------------------------------------------------------------
LoadInit ==
    /\ \E file \in LoadFiles : loader = LoaderStart(file)
    /\ builder = << >>
    /\ results = << >>
    /\ failed = FALSE
    /\ new_builder = << >>
    /\ hist = << >>
    /\ finalize_calls = 0
    /\ late_integrates = 0

LoadReadItem ==
    /\ loader.status = "reading"
    /\ loader' = LoadReadItemStep(loader)
    /\ UNCHANGED <<builder, results, failed, new_builder, hist,
                   finalize_calls, late_integrates>>

LoadCheck ==
    /\ loader.status = "loaded"
    /\ loader' = LoadCheckStep(loader)
    /\ UNCHANGED <<builder, results, failed, new_builder, hist,
                   finalize_calls, late_integrates>>

LoadNext == LoadReadItem \/ LoadCheck

LoadSpec == LoadInit /\ [][LoadNext]_vars


\* ------------------------------------------------------------------------
\* Helpers of the properties
\* ------------------------------------------------------------------------
Live == builder # << >>
Finalized == results # << >>

\* a <= b on finite reals
RLeq(a, b) == RSub(b, a).n >= 0

\* sum over i in 1..Len(h) of Term(h[i])
SumOver(h, Term(_)) ==
    LET S[i \in 0..Len(h)] ==
            IF i = 0 THEN R(0) ELSE RAdd(S[i - 1], Term(h[i]))
    IN  S[Len(h)]

\* the scalar weight of contribution c under the weights computed by new
WeightOf(c) ==
    SumOver(<<0, 1, 2, 3, 4>>,
            LAMBDA k : RMul(c[k], new_builder.sigma_contribs[k]))

\* the accumulator obtained by integrating the contributions of h, in order,
\* into a fresh copy of the builder returned by new
Replay(h) ==
    LET B[i \in 0..Len(h)] ==
            IF i = 0 THEN new_builder ELSE IntegrateStep(B[i - 1], h[i])
    IN  B[Len(h)]

\* Merge of two partial accumulators built from the same Configuration and
\* event weight: elementwise sum of the running sums and of the counters
Merge(a, b) ==
    [a EXCEPT !.selected_events = a.selected_events + b.selected_events,
              !.spm2 = VecAdd(a.spm2, b.spm2),
              !.vars = VecAdd(a.vars, b.vars),
              !.sigma = RAdd(a.sigma, b.sigma),
              !.variance = RAdd(a.variance, b.variance)]

Prefix(h, i) == SubSeq(h, 1, i)
Suffix(h, i) == SubSeq(h, i + 1, Len(h))

AllZero(h) == \A i \in 1..Len(h) : h[i] = VecZero
Symmetric(h) == \A i \in 1..Len(h) : h[i][1] = h[i][2]

\* the coefficients computed once by new
Coefficients(b) ==
    <<b.sigma_contribs, b.fact_com, b.norm_weight, b.propag, b.ecart_pic,
      b.config>>

\* ------------------------------------------------------------------------
\* C1: after N integrate calls on a new builder the event counter is N, and
\* finalize copies that N unchanged into FinalResults.selected_events.
\* ------------------------------------------------------------------------
C1_EventCount ==
    /\ Live => builder[1].selected_events = Len(hist)
    /\ Finalized => results[1].selected_events = Len(hist)

C1_Witness ==
    Finalized /\ Len(hist) >= 2 /\ results[1].selected_events = Len(hist)

\* ------------------------------------------------------------------------
\* C2: integrating c_1..c_N into a fresh accumulator gives, per channel k,
\* sum[k] = sum_i c_i[k] and sum_sq[k] = sum_i c_i[k]^2, and with
\* w_i = sum_k c_i[k] * channel_weights[k], sigma_sum = sum_i w_i and
\* sigma_sum_sq = sum_i w_i^2 (each call adds its own term to each sum).
\* ------------------------------------------------------------------------
C2_IntegrateSums ==
    Live =>
        LET b == builder[1]
        IN  /\ \A k \in Channels :
                  /\ b.spm2[k] = SumOver(hist, LAMBDA c : c[k])
                  /\ b.vars[k] = SumOver(hist, LAMBDA c : RMul(c[k], c[k]))
            /\ b.sigma = SumOver(hist, WeightOf)
            /\ b.variance =
                  SumOver(hist, LAMBDA c : RMul(WeightOf(c), WeightOf(c)))

C2_Witness ==
    /\ Live /\ Len(hist) >= 2
    /\ builder[1].spm2[3].n < 0
    /\ builder[1].vars[3].n > 1
    /\ builder[1].sigma.n # 0
    /\ builder[1].variance.n # 0

\* ------------------------------------------------------------------------
\* C3: a builder is finalized at most once and never integrated after its
\* finalize: finalize consumes it, leaving only the FinalResults value.
\* ------------------------------------------------------------------------
C3_ConsumedByFinalize ==
    /\ finalize_calls <= 1
    /\ late_integrates = 0
    /\ finalize_calls = 1 => (~Live /\ Finalized)
    /\ Len(builder) + Len(results) = 1

C3_Witness == finalize_calls = 1 /\ ~Live /\ Len(hist) >= 1

\* ------------------------------------------------------------------------
\* C4 (as stated): finalize on an accumulator with fewer than 2 integrated
\* events reports an explicit failure instead of returning FinalResults.
\* ------------------------------------------------------------------------
C4_Original ==
    (finalize_calls > 0 /\ Len(hist) < 2) => (failed /\ ~Finalized)

\* C4 (amended): finalize on an accumulator with fewer than 2 integrated
\* events reports no failure; it returns an ordinary FinalResults value
\* carrying that event count.
C4_NoFailure ==
    (finalize_calls > 0 /\ Len(hist) < 2) =>
        (~failed /\ Finalized /\ results[1].selected_events < 2)

C4_Witness ==
    finalize_calls > 0 /\ Len(hist) = 1 /\ Finalized /\ ~failed

\* ------------------------------------------------------------------------
\* C5 (as stated): after exactly one integrate call, finalize yields a
\* non-finite variance and a non-finite prec, for every configuration.
\* ------------------------------------------------------------------------
C5_Original ==
    (Finalized /\ results[1].selected_events = 1) =>
        (~IsFinite(results[1].variance) /\ ~IsFinite(results[1].prec))

\* C5 (amended): after exactly one integrate call, finalize yields a
\* non-finite variance and prec when Configuration.num_events is 1 (the n of
\* the variance formula is the configured event count).
C5_SingleConfiguredEvent ==
    (Finalized /\ results[1].selected_events = 1
               /\ results[1].config.num_events = 1) =>
        (~IsFinite(results[1].variance) /\ ~IsFinite(results[1].prec))

C5_Witness ==
    /\ Finalized /\ results[1].selected_events = 1
    /\ results[1].config.num_events = 1
    /\ hist[1] # VecZero
    /\ IsNaN(results[1].variance) /\ IsNaN(results[1].prec)


\* ------------------------------------------------------------------------
\* C6 (as stated): for every configuration, integrating the all-zero
\* contribution k >= 1 times and finalizing yields sigma = 0 and
\* variance = 0, sigma_sum and sigma_sum_sq staying 0 after every call.
\* ------------------------------------------------------------------------
C6_Original ==
    /\ (Live /\ AllZero(hist)) =>
          (builder[1].sigma = R(0) /\ builder[1].variance = R(0))
    /\ (Finalized /\ Len(hist) >= 1 /\ AllZero(hist)) =>
          (results[1].sigma = R(0) /\ results[1].variance = R(0))

\* C6 (amended): the same, for configurations with num_events >= 2; with
\* num_events = 1 the total variance of the all-zero stream is NaN (0/0)
\* while sigma is still 0.
C6_ZeroStream ==
    /\ (Live /\ AllZero(hist)) =>
          (builder[1].sigma = R(0) /\ builder[1].variance = R(0))
    /\ (Finalized /\ Len(hist) >= 1 /\ AllZero(hist)) =>
          /\ results[1].sigma = R(0)
          /\ results[1].config.num_events >= 2 => results[1].variance = R(0)
          /\ results[1].config.num_events = 1 => IsNaN(results[1].variance)

C6_Witness ==
    /\ Finalized /\ Len(hist) >= 2 /\ AllZero(hist)
    /\ results[1].config.num_events >= 2
    /\ results[1].sigma = R(0) /\ results[1].variance = R(0)

\* ------------------------------------------------------------------------
\* C7: merging two accumulators built from the same Configuration and event
\* weight gives the state (and after finalize the FinalResults) of one
\* accumulator that integrated all events of the first and then all of the
\* second; the merge is commutative and associative, so the state does not
\* depend on the order or sharding of the contributions.
\* ------------------------------------------------------------------------
C7_MergeAdditive ==
    \A i \in 0..Len(hist) :
        LET A == Replay(Prefix(hist, i))
            B == Replay(Suffix(hist, i))
        IN  /\ Finalized => FinalizeResults(Merge(A, B)) = results[1]
            /\ Live =>
                  /\ Merge(A, B) = builder[1]
                  /\ Merge(A, B) = Merge(B, A)
                  /\ Merge(B, A) = Replay(Suffix(hist, i) \o Prefix(hist, i))
                  /\ \A j \in i..Len(hist) :
                        LET B1 == Replay(SubSeq(hist, i + 1, j))
                            B2 == Replay(Suffix(hist, j))
                        IN  /\ Merge(Merge(A, B1), B2) = Merge(A, Merge(B1, B2))
                            /\ Merge(A, Merge(B1, B2)) = builder[1]

C7_Witness ==
    /\ Finalized /\ Len(hist) >= 3
    /\ hist[1] # hist[2] /\ hist[2] # hist[3]
    /\ \A i \in 1..Len(hist) : ~IsZero(WeightOf(hist[i]))
    /\ FinalizeResults(Merge(Replay(Prefix(hist, 1)), Replay(Suffix(hist, 1))))
          = results[1]

\* ------------------------------------------------------------------------
\* C8 (as stated): no integrate call leaves any running sum (per-channel
\* sum, per-channel sum of squares, sigma_sum, sigma_sum_sq) smaller than
\* before the call, and none resets a sum to its initial value.
\* ------------------------------------------------------------------------
C8_Original ==
    [][(Live /\ Live' /\ hist' # hist) =>
          LET b == builder[1]
              b2 == builder'[1]
          IN  /\ \A k \in Channels :
                    /\ RLeq(b.spm2[k], b2.spm2[k])
                    /\ RLeq(b.vars[k], b2.vars[k])
                    /\ b.spm2[k] # R(0) => b2.spm2[k] # R(0)
              /\ RLeq(b.sigma, b2.sigma)
              /\ RLeq(b.variance, b2.variance)]_vars

\* C8 (amended): no integrate call leaves a per-channel sum of squares or
\* sigma_sum_sq smaller than before, and each call adds its increment to the
\* previous value of every running sum (none is reset); a per-channel sum
\* or sigma_sum does not decrease when the added channel value or weight is
\* non-negative, and can decrease or return to 0 when it is negative.
C8_Accumulated ==
    [][(Live /\ Live' /\ hist' # hist) =>
          LET b == builder[1]
              b2 == builder'[1]
              c == hist'[Len(hist')]
              w == WeightOf(c)
          IN  /\ \A k \in Channels :
                    /\ RLeq(b.vars[k], b2.vars[k])
                    /\ RSub(b2.vars[k], b.vars[k]) = RMul(c[k], c[k])
                    /\ RSub(b2.spm2[k], b.spm2[k]) = c[k]
                    /\ c[k].n >= 0 => RLeq(b.spm2[k], b2.spm2[k])
              /\ RLeq(b.variance, b2.variance)
              /\ RSub(b2.sigma, b.sigma) = w
              /\ w.n >= 0 => RLeq(b.sigma, b2.sigma)]_vars

C8_Witness ==
    /\ Live /\ Len(hist) >= 2
    /\ hist[1][3].n > 0 /\ hist[2][3].n < 0
    /\ builder[1].spm2[3] = R(0)
    /\ builder[1].vars[3].n >= 2


\* ------------------------------------------------------------------------
\* C9: with beta_plus = beta_minus and a stream whose contributions all
\* have equal BB+ (channel 1) and BB- (channel 2) values, finalize yields
\* ss_p = ss_m and inc_ss_p = inc_ss_m, each significance being its
\* spin-summed channel divided by the same 2*sqrt(spin-summed channel 0).
\* Equality is identity of the resulting value.
\* ------------------------------------------------------------------------
C9_SymmetricSignificance ==
    (/\ Finalized
     /\ results[1].config.beta_plus = results[1].config.beta_minus
     /\ Symmetric(hist)) =>
        LET r == results[1]
            ss_denom == RMul(R(2), sqrt(RAdd(r.spm2[0][0], r.spm2[1][0])))
        IN  /\ r.ss_p = r.ss_m
            /\ r.inc_ss_p = r.inc_ss_m
            /\ r.ss_p = RDiv(RAdd(r.spm2[0][1], r.spm2[1][1]), ss_denom)
            /\ r.ss_m = RDiv(RAdd(r.spm2[0][2], r.spm2[1][2]), ss_denom)

C9_Witness ==
    /\ Finalized /\ Len(hist) >= 2
    /\ results[1].config.beta_plus = results[1].config.beta_minus
    /\ Symmetric(hist)
    /\ hist[1] # hist[2]
    /\ IsFinite(results[1].ss_p) /\ results[1].ss_p.n > 0
    /\ results[1].ss_p = results[1].ss_m
    /\ IsFinite(results[1].inc_ss_p) /\ results[1].inc_ss_p.n > 0

\* ------------------------------------------------------------------------
\* C10: the physics coefficients (sigma_contribs, fact_com, norm_weight,
\* propag, ecart_pic and the borrowed Configuration) are set by new and left
\* unchanged by every integrate call, and finalize reads exactly the values
\* set by new.
\* ------------------------------------------------------------------------
C10_CoefficientsFrozen ==
    /\ Live => Coefficients(builder[1]) = Coefficients(new_builder)
    /\ Finalized =>
          /\ results[1].config = new_builder.config
          /\ results[1] =
                FinalizeResults(
                    [new_builder EXCEPT
                        !.selected_events = Len(hist),
                        !.spm2 = [k \in Channels |->
                                    SumOver(hist, LAMBDA c : c[k])],
                        !.vars = [k \in Channels |->
                                    SumOver(hist, LAMBDA c : RMul(c[k], c[k]))],
                        !.sigma = SumOver(hist, WeightOf),
                        !.variance =
                            SumOver(hist, LAMBDA c :
                                              RMul(WeightOf(c), WeightOf(c)))])

C10_Witness ==
    /\ Finalized /\ Len(hist) >= 2
    /\ \A k \in Channels : ~IsZero(new_builder.sigma_contribs[k])
    /\ \A k \in Channels : IsFinite(results[1].spm2[0][k])
                              /\ results[1].spm2[0][k].n # 0


\* ------------------------------------------------------------------------
\* C12: in every FinalResults the relative uncertainties of the two spin
\* states are equal in all 5 channels and their channel-0 values are equal;
\* channels 1-2 differ between the spins by the squared multipliers
\* (1 - 2*sin2_w)^2 (spin 0) versus (-2*sin2_w)^2 (spin 1), channels 3-4 by
\* the linear multipliers (1 - 2*sin2_w) versus (-2*sin2_w).
\* ------------------------------------------------------------------------
C12_SpinStates ==
    Finalized =>
        LET r == results[1]
            pol_p == RMul(R(-2), r.config.sin2_w)
            pol_m == RSub(R(1), RMul(R(2), r.config.sin2_w))
        IN  /\ \A k \in Channels : r.vars[0][k] = r.vars[1][k]
            /\ r.spm2[0][0] = r.spm2[1][0]
            /\ \A k \in 1..2 :
                  RMul(r.spm2[0][k], RMul(pol_p, pol_p))
                      = RMul(r.spm2[1][k], RMul(pol_m, pol_m))
            /\ \A k \in 3..4 :
                  RMul(r.spm2[0][k], pol_p) = RMul(r.spm2[1][k], pol_m)

C12_Witness ==
    /\ Finalized /\ Len(hist) >= 2
    /\ \A k \in Channels :
          /\ IsFinite(results[1].vars[0][k]) /\ results[1].vars[0][k].n > 0
          /\ IsFinite(results[1].spm2[0][k]) /\ results[1].spm2[0][k].n # 0
    /\ \A k \in 1..4 : results[1].spm2[0][k] # results[1].spm2[1][k]

\* ------------------------------------------------------------------------
\* C13: the sample count n of every variance and relative-uncertainty
\* formula of finalize is Configuration.num_events, not the number of
\* integrate calls: accumulators with the same Configuration and the same
\* running sums but different selected_events give FinalResults identical
\* in every field except selected_events.
\* ------------------------------------------------------------------------
C13_SampleCountConfigured ==
    Finalized =>
        LET r == results[1]
            b == Replay(hist)
            n == R(r.config.num_events)
        IN  /\ \A m \in 0..(MaxIntegrate + 1) :
                  [FinalizeResults([b EXCEPT !.selected_events = m])
                      EXCEPT !.selected_events = 0]
                    = [r EXCEPT !.selected_events = 0]
            /\ r.variance =
                  RDiv(RSub(b.variance, RDiv(RMul(b.sigma, b.sigma), n)),
                       RSub(n, R(1)))
            /\ \A k \in Channels :
                  r.vars[0][k] =
                      RDiv(sqrt(RDiv(RDiv(RSub(b.vars[k],
                                               RDiv(RMul(b.spm2[k], b.spm2[k]),
                                                    n)),
                                          RSub(n, R(1))), n)),
                           abs(RDiv(b.spm2[k], n)))

C13_Witness ==
    /\ Finalized
    /\ results[1].selected_events >= 1
    /\ results[1].selected_events # results[1].config.num_events
    /\ IsFinite(results[1].variance) /\ results[1].variance.n > 0
    /\ IsFinite(results[1].prec) /\ results[1].prec.n > 0


\* ------------------------------------------------------------------------
\* Helpers of the properties of Configuration::load
\* ------------------------------------------------------------------------
LoadDone == loader.status \in {"ok", "err"}

\* the fields of the reading order that have an item in the file
PresentFields(items) ==
    1..(IF Len(items) < NumFields THEN Len(items) ELSE NumFields)

\* item i parses as the type of field i
ItemParses(items, i) == Len(Parse(FieldTypes[i], items[i])) = 1

AllItemsParse(items) == \A i \in PresentFields(items) : ItemParses(items, i)

\* ------------------------------------------------------------------------
\* C11 (as stated): load enforces only num_events >= 1: a file whose 16
\* items all parse but whose num_events is 0 is rejected, while num_events
\* = 1 with plot and impr false is accepted; a file with fewer than 16
\* non-blank lines is rejected with 'Missing configuration of <field>'
\* naming the first field of the reading order that has no line.
\* ------------------------------------------------------------------------
C11_Original ==
    LoadDone =>
        LET items == Items(loader.file)
        IN  /\ (Len(items) >= 16 /\ AllItemsParse(items)
                  /\ ParseUsize(items[1]) = << 0 >>)
                  => loader.status = "err"
            /\ (Len(items) >= 16 /\ AllItemsParse(items)
                  /\ ParseUsize(items[1]) = << 1 >>
                  /\ \A i \in PresentFields(items) \cap {17, 18} :
                        ParseBool(items[i]) = << FALSE >>)
                  => loader.status = "ok"
            /\ Len(items) < 16
                  => loader.error = Missing(FieldNames[Len(items) + 1])

\* C11 (amended): load reads 18 items.  A file whose 18 items all parse but
\* whose num_events is 0 is rejected, while num_events = 1 with plot and
\* impr false is accepted; a file with fewer than 18 non-blank lines whose
\* items all parse is rejected with 'Missing configuration of <field>'
\* naming the first field of the reading order that has no line; a file
\* with an item that does not parse is rejected with 'Could not parse
\* configuration of <field>' naming the first such field that has a line.
C11_LoadOutcome ==
    LoadDone =>
        LET items == Items(loader.file)
        IN  /\ (Len(items) >= NumFields /\ AllItemsParse(items)
                  /\ ParseUsize(items[1]) = << 0 >>)
                  => /\ loader.status = "err"
                     /\ loader.error.name = "num_events"
            /\ (Len(items) >= NumFields /\ AllItemsParse(items)
                  /\ ParseUsize(items[1]) = << 1 >>
                  /\ ParseBool(items[17]) = << FALSE >>
                  /\ ParseBool(items[18]) = << FALSE >>)
                  => /\ loader.status = "ok"
                     /\ loader.values[1] = 1
                     /\ Len(loader.values) = NumFields
            /\ (Len(items) < NumFields /\ AllItemsParse(items))
                  => /\ loader.status = "err"
                     /\ loader.error = Missing(FieldNames[Len(items) + 1])
            /\ ~AllItemsParse(items)
                  => \E i \in PresentFields(items) :
                        /\ ~ItemParses(items, i)
                        /\ \A j \in 1..(i - 1) : ItemParses(items, j)
                        /\ loader.status = "err"
                        /\ loader.error = CouldNotParse(FieldNames[i])

C11_Witness ==
    /\ loader.status = "ok"
    /\ loader.values[1] = 1
    /\ Len(Items(loader.file)) = NumFields
    /\ Len(loader.file) > NumFields

====
